---- MODULE Spec2Model ----
(***************************************************************************)
(* Model of the backup engine of artaleBOSStracker:                        *)
(*   src/src/utils/backup.ts          codec, normalizer, merge, resolver   *)
(*   src/src/components/BackupPanel.tsx  the import / merge / apply flow   *)
(*                                                                         *)
(* A JavaScript value that the code inspects with typeof / Number.isFinite *)
(* is a record [k, n, s]: k is its kind, n the magnitude of a number in    *)
(* units of 1/Scale (so that Math.floor is not the identity), s the text   *)
(* of a string.                                                            *)
(***************************************************************************)
EXTENDS Integers, Sequences, FiniteSets, TLC

\* ------------------------------------------------------------------ bounds
Scale == 2
MaxTime == 2
MaxFields == 3
MaxTotalChannels == 3
MaxTables == 3
MaxGen == 2
MaxRawChannels == 2
MaxRawTables == 2
MaxEdits == 1

\* ------------------------------------------------------- program constants
BACKUP_PREFIX == "BOSSTIMER_V1:"
BACKUP_PREFIX_GZ == "BOSSTIMER_V2GZ:"
BACKUP_VERSION == 1
STORAGE_VERSION == "boss-timer/v1"
MIN_CHANNELS == 1
MAX_CHANNELS == 50

\* ------------------------------------------------------------------ values
Undefined == [k |-> "undefined", n |-> 0, s |-> ""]
Null == [k |-> "null", n |-> 0, s |-> ""]
NonFinite == [k |-> "nonfinite", n |-> 0, s |-> ""]
Number(h) == [k |-> "number", n |-> h, s |-> ""]
Whole(i) == Number(i * Scale)
Str(x) == [k |-> "string", n |-> 0, s |-> x]

TypeofNumber(v) == v.k \in {"number", "nonfinite"}
IsFiniteNumber(v) == v.k = "number"
Floor(h) == h \div Scale

Max2(a, b) == IF a >= b THEN a ELSE b
Min2(a, b) == IF a <= b THEN a ELSE b
MaxOf(S) == CHOOSE m \in S : \A o \in S : o <= m
MinOf(S) == CHOOSE m \in S : \A o \in S : m <= o

\* Math.max(MIN, Math.min(MAX, Math.floor(value))); value in units of 1/Scale
clampChannelsCountNoUpper(h) == Max2(MIN_CHANNELS, Floor(h))
clampChannelsCount(h) == Max2(MIN_CHANNELS, Min2(MAX_CHANNELS, Floor(h)))

toEpoch(v) == IF IsFiniteNumber(v) THEN v ELSE Undefined

EmptyChannel(c) ==
  [channel |-> c, killedAt |-> Undefined, earliestRespawnAt |-> Undefined,
   latestRespawnAt |-> Undefined]

hasTimer(ch) ==
  \/ TypeofNumber(ch.killedAt)
  \/ TypeofNumber(ch.earliestRespawnAt)
  \/ TypeofNumber(ch.latestRespawnAt)

\* `x ?? ''` followed by Array.join: the text of one timestamp
SigPart(v) ==
  IF v.k \in {"undefined", "null"} THEN ""
  ELSE IF v.k = "nonfinite" THEN "NaN"
  ELSE ToString(v.n)

timerSignature(ch) ==
  SigPart(ch.killedAt) \o "|" \o SigPart(ch.earliestRespawnAt) \o "|"
    \o SigPart(ch.latestRespawnAt)

cloneChannel(ch) ==
  [channel |-> ch.channel, killedAt |-> ch.killedAt,
   earliestRespawnAt |-> ch.earliestRespawnAt,
   latestRespawnAt |-> ch.latestRespawnAt]

cloneTable(t) ==
  [t EXCEPT !.channels = [i \in DOMAIN t.channels |-> cloneChannel(t.channels[i])]]

\* new Map(channels.map(c => [c.channel, c])).get(k) ?? { channel: k }
ByChannelGet(chs, c) ==
  LET hits == {i \in DOMAIN chs : chs[i].channel = c}
  IN IF hits = {} THEN EmptyChannel(c) ELSE chs[MaxOf(hits)]

\* Array.prototype.findIndex, 1-based; 0 when nothing matches
FindTableByName(ts, name) ==
  LET hits == {i \in DOMAIN ts : ts[i].bossName = name}
  IN IF hits = {} THEN 0 ELSE MinOf(hits)

\* ---------------------------------------------------------- id generation
\* generateTableId draws from a random source: gen is the finite prefix of
\* the source that may repeat ids already in use; past it every draw is new.
generateTableId(gen, ids) ==
  IF gen # <<>> THEN Head(gen) ELSE "uuid-" \o ToString(Cardinality(ids))

RECURSIVE FreshId(_, _)
FreshId(ids, gen) ==
  LET nextId == generateTableId(gen, ids)
      rest == IF gen # <<>> THEN Tail(gen) ELSE gen
  IN IF nextId \in ids THEN FreshId(ids, rest)
     ELSE [id |-> nextId, gen |-> rest]

ensureUniqueIdKeepPreferred(existingIds, preferredId, gen) ==
  [id |-> preferredId, ids |-> existingIds \cup {preferredId}, gen |-> gen]
ensureUniqueId(existingIds, preferredId, gen) ==
  IF preferredId \notin existingIds
  THEN [id |-> preferredId, ids |-> existingIds \cup {preferredId}, gen |-> gen]
  ELSE LET f == FreshId(existingIds, gen)
       IN [id |-> f.id, ids |-> existingIds \cup {f.id}, gen |-> f.gen]

\* ------------------------------------------------------------ merge engine
\* One pass of the channel loop of buildMergePreview (lines 341-379):
\* acc = [nextChannels, conflicts, defaultChoices]
RECURSIVE MergeChannels(_, _, _, _, _)
MergeChannels(existing, importedTable, channelNumber, mergedCount, acc) ==
  IF channelNumber > mergedCount THEN acc
  ELSE
    LET mine == ByChannelGet(existing.channels, channelNumber)
        theirs == ByChannelGet(importedTable.channels, channelNumber)
        mineHas == hasTimer(mine)
        theirsHas == hasTimer(theirs)
        conflictId == existing.id \o ":" \o ToString(channelNumber) \o ":"
                        \o ToString(Len(acc.conflicts))
        next ==
          IF ~mineHas /\ theirsHas
            THEN [acc EXCEPT !.nextChannels = Append(@, cloneChannel(theirs))]
          ELSE IF mineHas /\ ~theirsHas
            THEN [acc EXCEPT !.nextChannels = Append(@, cloneChannel(mine))]
          ELSE IF ~mineHas /\ ~theirsHas
            THEN [acc EXCEPT !.nextChannels = Append(@, EmptyChannel(channelNumber))]
          ELSE IF timerSignature(mine) = timerSignature(theirs)
            THEN [acc EXCEPT !.nextChannels = Append(@, cloneChannel(mine))]
          ELSE [nextChannels |-> Append(acc.nextChannels, cloneChannel(mine)),
                conflicts |-> Append(acc.conflicts,
                   [id |-> conflictId, bossName |-> existing.bossName,
                    tableId |-> existing.id, channel |-> channelNumber,
                    mine |-> cloneChannel(mine), theirs |-> cloneChannel(theirs)]),
                defaultChoices |-> (conflictId :> "mine") @@ acc.defaultChoices]
    IN MergeChannels(existing, importedTable, channelNumber + 1, mergedCount, next)

\* One pass of the table loop of buildMergePreview (lines 324-386):
\* st = [mergedTables, conflicts, defaultChoices, usedIds, gen]
MergeOneTable(st, importedTable) ==
  LET targetIndex == FindTableByName(st.mergedTables, importedTable.bossName)
  IN IF targetIndex = 0
     THEN LET u == ensureUniqueId(st.usedIds, importedTable.id, st.gen)
          IN [st EXCEPT !.mergedTables = Append(@, [importedTable EXCEPT !.id = u.id]),
                        !.usedIds = u.ids,
                        !.gen = u.gen]
     ELSE LET existing == st.mergedTables[targetIndex]
              mergedCount == clampChannelsCount(
                 Max2(existing.channelsCount, importedTable.channelsCount) * Scale)
              r == MergeChannels(existing, importedTable, 1, mergedCount,
                     [nextChannels |-> <<>>, conflicts |-> st.conflicts,
                      defaultChoices |-> st.defaultChoices])
          IN [st EXCEPT !.mergedTables[targetIndex] =
                           [existing EXCEPT !.channelsCount = mergedCount,
                                            !.channels = r.nextChannels],
                        !.conflicts = r.conflicts,
                        !.defaultChoices = r.defaultChoices]

RECURSIVE MergeTables(_, _, _)
MergeTables(st, importedTables, i) ==
  IF i > Len(importedTables) THEN st
  ELSE MergeTables(MergeOneTable(st, cloneTable(importedTables[i])), importedTables, i + 1)

NoChoices == [c \in {} |-> "mine"]

buildMergePreview(existingTables, importedTables, gen) ==
  LET start == [mergedTables |-> [k \in DOMAIN existingTables |-> cloneTable(existingTables[k])],
                conflicts |-> <<>>,
                defaultChoices |-> NoChoices,
                usedIds |-> {existingTables[i].id : i \in DOMAIN existingTables},
                gen |-> gen]
      end == MergeTables(start, importedTables, 1)
  IN [mergedTables |-> end.mergedTables, conflicts |-> end.conflicts,
      defaultChoices |-> end.defaultChoices]

\* --------------------------------------------------------- conflict resolver
\* new Map(result.map((t, i) => [t.id, i])).get(id); 0 when undefined
TableIndexById(ts, id) ==
  LET hits == {i \in DOMAIN ts : ts[i].id = id}
  IN IF hits = {} THEN 0 ELSE MaxOf(hits)

FindChannelIndex(chs, c) ==
  LET hits == {i \in DOMAIN chs : chs[i].channel = c}
  IN IF hits = {} THEN 0 ELSE MinOf(hits)

SelectedChoice(choices, id) == IF id \in DOMAIN choices THEN choices[id] ELSE "mine"

ApplyOneConflict(result, conflict, choices) ==
  LET selected == SelectedChoice(choices, conflict.id)
      idx == TableIndexById(result, conflict.tableId)
      channelIdx == IF idx = 0 THEN 0
                    ELSE FindChannelIndex(result[idx].channels, conflict.channel)
  IN IF idx = 0 \/ channelIdx = 0 THEN result
     ELSE [result EXCEPT ![idx].channels[channelIdx] =
             IF selected = "theirs" THEN cloneChannel(conflict.theirs)
             ELSE cloneChannel(conflict.mine)]

RECURSIVE ApplyConflicts(_, _, _, _)
ApplyConflicts(result, conflicts, choices, i) ==
  IF i > Len(conflicts) THEN result
  ELSE ApplyConflicts(ApplyOneConflict(result, conflicts[i], choices),
                      conflicts, choices, i + 1)

applyMergeChoices(preview, choices) ==
  ApplyConflicts([k \in DOMAIN preview.mergedTables |-> cloneTable(preview.mergedTables[k])], preview.conflicts, choices, 1)

\* -------------------------------------------------------------- normalizer
APP_TIME_ZONE == "Asia/Taipei"
InvalidFormat == "Invalid backup string"
UnsupportedVersion == "Unsupported backup version"

\* strings s with s.trim().length === 0
BlankStrings == {"", " ", "  "}
IsBlank(s) == s \in BlankStrings

\* a parsed JSON value standing where a channel is expected
RawChannelOf(isObj, channel, killedAt, earliest, latest) ==
  [isObject |-> isObj, channel |-> channel, killedAt |-> killedAt,
   earliestRespawnAt |-> earliest, latestRespawnAt |-> latest]

\* normalizeChannel returns null: the channel number 0 stands for null (a
\* normalized channel number is at least 1)
NullChannel == EmptyChannel(0)

normalizeChannel(raw) ==
  IF ~raw.isObject THEN NullChannel
  ELSE IF ~(TypeofNumber(raw.channel) /\ IsFiniteNumber(raw.channel)) THEN NullChannel
  ELSE [channel |-> Max2(1, Floor(raw.channel.n)),
        killedAt |-> toEpoch(raw.killedAt),
        earliestRespawnAt |-> toEpoch(raw.earliestRespawnAt),
        latestRespawnAt |-> toEpoch(raw.latestRespawnAt)]

IsNotNullChannel(ch) == ch # NullChannel

RECURSIVE SortedSeqOf(_)
SortedSeqOf(S) ==
  IF S = {} THEN <<>>
  ELSE LET m == MinOf(S) IN <<m>> \o SortedSeqOf(S \ {m})

\* deduped.set(channel.channel, channel) over the parsed channels: the entry
\* seen last for a channel number
LastWithChannel(parsed, c) ==
  parsed[MaxOf({i \in DOMAIN parsed : parsed[i].channel = c})]

NullTable ==
  [id |-> "", bossName |-> "", channelsCount |-> 0, channels |-> <<>>,
   createdAt |-> Undefined]

HasFiniteCount(table) ==
  TypeofNumber(table.channelsCount) /\ IsFiniteNumber(table.channelsCount)

\* line 221: clampChannelsCount(Math.max(requestedCount, maxChannel))
FinalChannelsCountRequestedOnly(requestedCount, maxChannel) ==
  clampChannelsCount(requestedCount * Scale)
FinalChannelsCount(requestedCount, maxChannel) ==
  clampChannelsCount(Max2(requestedCount, maxChannel) * Scale)

\* normalizeTable(table, index, warnings): the table (NullTable for null) and
\* the warnings list after the call; index is 0-based, now is Date.now()
normalizeTable(table, index, warnings, now) ==
  IF ~table.isObject
    THEN [table |-> NullTable,
          warnings |-> Append(warnings,
             "Skipped table #" \o ToString(index + 1) \o ": not an object.")]
  ELSE IF table.bossName.k # "string" \/ IsBlank(table.bossName.s)
    THEN [table |-> NullTable,
          warnings |-> Append(warnings,
             "Skipped table #" \o ToString(index + 1) \o ": missing bossName.")]
  ELSE
    LET parsedChannels ==
          IF table.channels.isArray
          THEN SelectSeq([k \in DOMAIN table.channels.items |-> normalizeChannel(table.channels.items[k])], IsNotNullChannel)
          ELSE <<>>
        numbers == {parsedChannels[i].channel : i \in DOMAIN parsedChannels}
        sortedNumbers == SortedSeqOf(numbers)
        uniqueChannels == [i \in DOMAIN sortedNumbers |->
                             LastWithChannel(parsedChannels, sortedNumbers[i])]
        maxChannel == IF uniqueChannels = <<>> THEN 0
                      ELSE uniqueChannels[Len(uniqueChannels)].channel
        requestedCount ==
          IF HasFiniteCount(table) THEN Floor(table.channelsCount.n)
          ELSE IF maxChannel > 0 THEN maxChannel
          ELSE MIN_CHANNELS
        channelsCount == FinalChannelsCount(requestedCount, maxChannel)
        clampedOriginal == clampChannelsCount(table.channelsCount.n)
        w1 == IF HasFiniteCount(table) /\ clampedOriginal * Scale # table.channelsCount.n
              THEN Append(warnings,
                     "Table \"" \o table.bossName.s \o "\": channelsCount was clamped to "
                       \o ToString(clampedOriginal) \o ".")
              ELSE warnings
        w2 == IF channelsCount # Len(uniqueChannels)
              THEN Append(w1,
                     "Table \"" \o table.bossName.s \o "\": channels rebuilt ("
                       \o ToString(Len(uniqueChannels)) \o " -> " \o ToString(channelsCount)
                       \o ") to match count.")
              ELSE w1
        channels == [idx \in 1..channelsCount |->
                       IF idx \in numbers THEN LastWithChannel(parsedChannels, idx)
                       ELSE EmptyChannel(idx)]
    IN [table |->
          [id |-> IF table.id.k = "string" /\ table.id.s # "" THEN table.id.s
                  ELSE "imported-" \o ToString(now) \o "-" \o ToString(index),
           bossName |-> table.bossName.s,
           channelsCount |-> channelsCount,
           channels |-> channels,
           createdAt |-> IF toEpoch(table.createdAt) # Undefined THEN toEpoch(table.createdAt)
                         ELSE Whole(now)],
        warnings |-> w2]

\* ------------------------------------------------------------------- codec
\* A backup text is [blank, pad, prefix, form, json]: blank texts are empty or
\* whitespace only; pad says the text carries surrounding whitespace; form is
\* what follows the prefix: "json" (JSON text), "b64json" (base64 of the UTF-8
\* JSON text), "b64gz" (base64 of the gzip stream of the JSON text) or
\* "garbage"; json is the JSON document the form carries.
NoTables == [isArray |-> FALSE, items |-> <<>>]
JsonValue(kind, version, storageVersion, exportedAt, timezone, tables) ==
  [k |-> kind, version |-> version, storageVersion |-> storageVersion,
   exportedAt |-> exportedAt, timezone |-> timezone, tables |-> tables]
NoJson == [parsable |-> FALSE,
           value |-> JsonValue("undefined", Undefined, Undefined, Undefined, Undefined, NoTables)]
BlankText == [blank |-> TRUE, pad |-> TRUE, prefix |-> "", form |-> "garbage", json |-> NoJson]

\* JSON.stringify of one value: undefined properties are omitted, non-finite
\* numbers become null
JsonOf(v) == IF v.k = "nonfinite" THEN Null ELSE v

StringifyChannel(ch) ==
  RawChannelOf(TRUE, Whole(ch.channel), JsonOf(ch.killedAt),
               JsonOf(ch.earliestRespawnAt), JsonOf(ch.latestRespawnAt))

StringifyTable(t) ==
  [isObject |-> TRUE, id |-> Str(t.id), bossName |-> Str(t.bossName),
   channelsCount |-> Whole(t.channelsCount),
   channels |-> [isArray |-> TRUE, items |-> [k \in DOMAIN t.channels |-> StringifyChannel(t.channels[k])]],
   createdAt |-> JsonOf(t.createdAt)]

\* exportState(tables): now is Date.now(); streams says whether the runtime has
\* the Compression Streams API (CompressionStream and DecompressionStream)
exportStateWrongPrefix(tables, now, streams) ==
  LET payload == JsonValue("object", Whole(BACKUP_VERSION), Str(STORAGE_VERSION),
                           Whole(now), Str(APP_TIME_ZONE),
                           [isArray |-> TRUE, items |-> [k \in DOMAIN tables |-> StringifyTable(tables[k])]])
      json == [parsable |-> TRUE, value |-> payload]
  IN IF streams
     THEN [blank |-> FALSE, pad |-> FALSE, prefix |-> BACKUP_PREFIX,
           form |-> "b64gz", json |-> json]
     ELSE [blank |-> FALSE, pad |-> FALSE, prefix |-> BACKUP_PREFIX,
           form |-> "b64json", json |-> json]
exportState(tables, now, streams) ==
  LET payload == JsonValue("object", Whole(BACKUP_VERSION), Str(STORAGE_VERSION),
                           Whole(now), Str(APP_TIME_ZONE),
                           [isArray |-> TRUE, items |-> [k \in DOMAIN tables |-> StringifyTable(tables[k])]])
      json == [parsable |-> TRUE, value |-> payload]
  IN IF streams
     THEN [blank |-> FALSE, pad |-> FALSE, prefix |-> BACKUP_PREFIX_GZ,
           form |-> "b64gz", json |-> json]
     ELSE [blank |-> FALSE, pad |-> FALSE, prefix |-> BACKUP_PREFIX,
           form |-> "b64json", json |-> json]

\* lines 257-273: the JSON text importState goes on to parse, and the branch
\* that produced it; path "failed" when base64 or gunzip throws
DecodeText(input, streams) ==
  IF input.prefix = BACKUP_PREFIX_GZ
    THEN IF input.form = "b64gz" /\ streams
         THEN [path |-> "gz", json |-> input.json]
         ELSE [path |-> "failed", json |-> NoJson]
  ELSE IF input.prefix = BACKUP_PREFIX
    THEN IF input.form = "b64json" THEN [path |-> "base64", json |-> input.json]
         ELSE IF input.form = "b64gz" THEN [path |-> "base64", json |-> NoJson]
         ELSE [path |-> "failed", json |-> NoJson]
  ELSE IF input.prefix = "" /\ input.form = "json"
    THEN [path |-> "raw", json |-> input.json]
    ELSE [path |-> "raw", json |-> NoJson]

RECURSIVE NormalizeTables(_, _, _, _)
\* parsed.tables.map(normalizeTable).filter(non-null): acc = [tables, warnings]
NormalizeTables(items, i, acc, now) ==
  IF i > Len(items) THEN acc
  ELSE LET r == normalizeTable(items[i], i - 1, acc.warnings, now)
       IN NormalizeTables(items, i + 1,
            [tables |-> IF r.table = NullTable THEN acc.tables
                        ELSE Append(acc.tables, r.table),
             warnings |-> r.warnings], now)

EmptyPayload ==
  [version |-> 0, storageVersion |-> "", exportedAt |-> Undefined, timezone |-> "",
   tables |-> <<>>]
Failure(message, path) ==
  [status |-> "error", error |-> message, path |-> path, payload |-> EmptyPayload,
   warnings |-> <<>>]
NoResult ==
  [status |-> "none", error |-> "", path |-> "", payload |-> EmptyPayload,
   warnings |-> <<>>]

IsObjectValue(v) == v.k \in {"object", "array"}

ImportParsed(parsed, path, now) ==
  LET warnings0 ==
        IF parsed.timezone # Str(APP_TIME_ZONE)
        THEN <<"Backup timezone is \""
                 \o (IF parsed.timezone.k = "string" THEN parsed.timezone.s
                     ELSE parsed.timezone.k)
                 \o "\", your timezone is \"" \o APP_TIME_ZONE \o "\".">>
        ELSE <<>>
      r == NormalizeTables(parsed.tables.items, 1,
                           [tables |-> <<>>, warnings |-> warnings0], now)
  IN [status |-> "ok", error |-> "", path |-> path,
      payload |->
        [version |-> BACKUP_VERSION,
         storageVersion |->
           IF parsed.storageVersion.k = "string" /\ parsed.storageVersion.s # ""
           THEN parsed.storageVersion.s ELSE STORAGE_VERSION,
         exportedAt |-> IF toEpoch(parsed.exportedAt) # Undefined
                        THEN toEpoch(parsed.exportedAt) ELSE Whole(now),
         timezone |-> IF parsed.timezone.k = "string" THEN parsed.timezone.s
                      ELSE APP_TIME_ZONE,
         tables |-> r.tables],
      warnings |-> r.warnings]

importStateTablesFirst(input, now, streams) ==
  IF input.blank THEN Failure(InvalidFormat, "")
  ELSE LET d == DecodeText(input, streams)
           parsed == d.json.value
       IN IF d.path = "failed" THEN Failure(InvalidFormat, d.path)
          ELSE IF ~d.json.parsable THEN Failure(InvalidFormat, d.path)
          ELSE IF ~IsObjectValue(parsed) THEN Failure(InvalidFormat, d.path)
          ELSE IF ~parsed.tables.isArray THEN Failure(InvalidFormat, d.path)
          ELSE IF parsed.version # Whole(BACKUP_VERSION)
            THEN Failure(UnsupportedVersion, d.path)
          ELSE ImportParsed(parsed, d.path, now)
importState(input, now, streams) ==
  IF input.blank THEN Failure(InvalidFormat, "")
  ELSE LET d == DecodeText(input, streams)
           parsed == d.json.value
       IN IF d.path = "failed" THEN Failure(InvalidFormat, d.path)
          ELSE IF ~d.json.parsable THEN Failure(InvalidFormat, d.path)
          ELSE IF ~IsObjectValue(parsed) THEN Failure(InvalidFormat, d.path)
          ELSE IF parsed.version # Whole(BACKUP_VERSION)
            THEN Failure(UnsupportedVersion, d.path)
          ELSE IF ~parsed.tables.isArray THEN Failure(InvalidFormat, d.path)
          ELSE ImportParsed(parsed, d.path, now)

\* ------------------------------------------------------------------- state
VARIABLES
  existingTables,   \* buildMergePreview's first argument (the local collection)
  importedTables,   \* buildMergePreview's second argument
  preview,          \* the MergePreview returned by buildMergePreview
  mergeChoices,     \* the choices map handed to applyMergeChoices
  finalTables,      \* the collection returned by applyMergeChoices
  mergeStage,       \* "off", or "input" -> "preview" -> "applied"
  backupTables,     \* exportState's argument
  streams,          \* the runtime has the Compression Streams API
  backupText,       \* the text returned by exportState / handed to importState
  importResult,     \* what importState returned or threw
  codecStage,       \* "off"; "tables" -> "exported" -> "roundtrip"; "text" -> "done"
  tables,           \* BackupPanel's tables prop: the store's collection
  importText,       \* useState importText
  exportText,       \* useState exportText
  message,          \* useState message
  error,            \* useState error
  isBusy,           \* useState isBusy
  mergePreview,     \* useState mergePreview: [present, value], present FALSE for null
  choices,          \* useState choices
  pending,          \* the async handler awaiting: its kind and the props it closed over
  lastCall,         \* the handler that ran last and its onReplaceTables call, if any
  edits             \* number of edits made in the store outside the panel

mergeVars == <<existingTables, importedTables, preview, mergeChoices, finalTables, mergeStage>>
codecVars == <<backupTables, streams, backupText, importResult, codecStage>>
panelVars == <<tables, importText, exportText, message, error, isBusy, mergePreview,
               choices, pending, lastCall, edits>>

vars == <<mergeVars, codecVars, panelVars>>

EmptyPreview == [mergedTables |-> <<>>, conflicts |-> <<>>, defaultChoices |-> NoChoices]

MergeIdle ==
  /\ existingTables = <<>>
  /\ importedTables = <<>>
  /\ preview = EmptyPreview
  /\ mergeChoices = NoChoices
  /\ finalTables = <<>>
  /\ mergeStage = "off"

CodecIdle ==
  /\ backupTables = <<>>
  /\ streams = TRUE
  /\ backupText = BlankText
  /\ importResult = NoResult
  /\ codecStage = "off"

NoPreview == [present |-> FALSE, value |-> EmptyPreview]
NoPending == [kind |-> "none", tables |-> <<>>, text |-> BlankText]
Called(handler) == [handler |-> handler, replaced |-> FALSE, arg |-> <<>>]
Replaced(handler, arg) == [handler |-> handler, replaced |-> TRUE, arg |-> arg]

PanelIdle ==
  /\ tables = <<>>
  /\ importText = BlankText
  /\ exportText = BlankText
  /\ message = ""
  /\ error = ""
  /\ isBusy = FALSE
  /\ mergePreview = NoPreview
  /\ choices = NoChoices
  /\ pending = NoPending
  /\ lastCall = Called("")
  /\ edits = 0

\* ------------------------------------------------- bounded input collections
BossNames == {"X", "Y"}
TimerFields == {"killedAt", "earliestRespawnAt", "latestRespawnAt"}
Times == 1..MaxTime

RECURSIVE SubsetsUpTo(_, _)
SubsetsUpTo(S, count) ==
  IF count = 0 THEN {{}}
  ELSE LET P == SubsetsUpTo(S, count - 1)
       IN P \cup {A \cup {x} : A \in P, x \in S}

RECURSIVE SumSeq(_)
SumSeq(s) == IF s = <<>> THEN 0 ELSE Head(s) + SumSeq(Tail(s))

\* channel counts of n tables, at most `budget` channels in all
RECURSIVE CountSeqs(_, _)
CountSeqs(n, budget) ==
  IF n = 0 THEN {<<>>}
  ELSE UNION {{<<c>> \o r : r \in CountSeqs(n - 1, budget - c)} :
                c \in {d \in 1..budget : budget - d >= n - 1}}

\* a valid table: dense channels 1..channelsCount; timestamps from `val`
ValidTable(id, name, count, created, side, t, val) ==
  [id |-> id, bossName |-> name, channelsCount |-> count,
   channels |-> [c \in 1..count |->
      [channel |-> c,
       killedAt |-> val[<<side, t, c, "killedAt">>],
       earliestRespawnAt |-> val[<<side, t, c, "earliestRespawnAt">>],
       latestRespawnAt |-> val[<<side, t, c, "latestRespawnAt">>]]],
   createdAt |-> Whole(created)]

Slots(side, counts) ==
  UNION {{<<side, t, c, f>> : c \in 1..counts[t], f \in TimerFields} : t \in DOMAIN counts}

LocalIdOf(t) == "L" \o ToString(t)
ImportedIdOf(t) == "I" \o ToString(t)

\* every pair of collections of valid tables within the bounds, ids pairwise
\* distinct: the timestamps set are at most MaxFields, each a whole time
InitMerge ==
  /\ \E nl \in 0..MaxTables, ni \in 0..MaxTables :
       /\ nl + ni <= MaxTables
       /\ \E cs \in CountSeqs(nl + ni, MaxTotalChannels) :
            LET lc == SubSeq(cs, 1, nl)
                ic == SubSeq(cs, nl + 1, nl + ni)
                slots == Slots("L", lc) \cup Slots("I", ic)
            IN \E F \in SubsetsUpTo(slots, MaxFields) :
                 \E tm \in [F -> Times], ln \in [1..nl -> BossNames],
                    im \in [1..ni -> BossNames] :
                   LET val == [sl \in slots |->
                                 IF sl \in F THEN Whole(tm[sl]) ELSE Undefined]
                   IN /\ existingTables = [t \in 1..nl |->
                            ValidTable(LocalIdOf(t), ln[t], lc[t], 1, "L", t, val)]
                      /\ importedTables = [t \in 1..ni |->
                            ValidTable(ImportedIdOf(t), im[t], ic[t], 2, "I", t, val)]
  /\ preview = EmptyPreview
  /\ mergeChoices = NoChoices
  /\ finalTables = <<>>
  /\ mergeStage = "input"
  /\ CodecIdle
  /\ PanelIdle

\* the colliding prefix of the random id source: up to MaxGen draws, each
\* either an id a table may already carry or an unused one
IdPool == {"a", "b"}
GenPool == {"a", "g"}
GenStreams == UNION {[1..n -> GenPool] : n \in 0..MaxGen}

\* every choices map over the preview's conflict ids: a key may be missing
\* or carry a value that is neither 'mine' nor 'theirs'
ChoiceMaps(p) ==
  LET ids == {p.conflicts[i].id : i \in DOMAIN p.conflicts}
  IN UNION {[D -> {"mine", "theirs", "other"}] : D \in SUBSET ids}

BuildPreview ==
  /\ mergeStage = "input"
  /\ \E gen \in GenStreams :
       preview' = buildMergePreview(existingTables, importedTables, gen)
  /\ mergeStage' = "preview"
  /\ UNCHANGED <<existingTables, importedTables, mergeChoices, finalTables>>
  /\ UNCHANGED <<codecVars, panelVars>>

ApplyChoices ==
  /\ mergeStage = "preview"
  /\ \E ch \in ChoiceMaps(preview) :
       /\ mergeChoices' = ch
       /\ finalTables' = applyMergeChoices(preview, ch)
  /\ mergeStage' = "applied"
  /\ UNCHANGED <<existingTables, importedTables, preview>>
  /\ UNCHANGED <<codecVars, panelVars>>

NextMerge == BuildPreview \/ ApplyChoices

SpecMerge == InitMerge /\ [][NextMerge]_vars

\* the same collection on both sides: buildMergePreview(T, T)
InitSelf ==
  /\ \E nl \in 0..MaxTables :
       \E cs \in CountSeqs(nl, MaxTotalChannels) :
         LET slots == Slots("L", cs)
         IN \E F \in SubsetsUpTo(slots, MaxFields) :
              \E tm \in [F -> Times], ln \in [1..nl -> BossNames] :
                LET val == [sl \in slots |->
                              IF sl \in F THEN Whole(tm[sl]) ELSE Undefined]
                    T == [t \in 1..nl |->
                            ValidTable(LocalIdOf(t), ln[t], cs[t], 1, "L", t, val)]
                IN /\ existingTables = T
                   /\ importedTables = T
  /\ preview = EmptyPreview
  /\ mergeChoices = NoChoices
  /\ finalTables = <<>>
  /\ mergeStage = "input"
  /\ CodecIdle
  /\ PanelIdle

SpecSelf == InitSelf /\ [][NextMerge]_vars

\* collections that differ in ids and boss names only: local ids pairwise
\* distinct, imported ids free to repeat each other and the local ones
IdBossNames == {"X", "Y", "Z"}
IdTable(id, name, created) ==
  [id |-> id, bossName |-> name, channelsCount |-> 1,
   channels |-> <<EmptyChannel(1)>>, createdAt |-> Whole(created)]

InitIds ==
  /\ \E nl \in 0..(MaxTables - 1), ni \in 0..MaxTables :
       \E lid \in [1..nl -> IdPool], ln \in [1..nl -> IdBossNames],
          iid \in [1..ni -> IdPool], im \in [1..ni -> IdBossNames] :
         /\ \A p, q \in 1..nl : p # q => lid[p] # lid[q]
         /\ existingTables = [t \in 1..nl |-> IdTable(lid[t], ln[t], 1)]
         /\ importedTables = [t \in 1..ni |-> IdTable(iid[t], im[t], 2)]
  /\ preview = EmptyPreview
  /\ mergeChoices = NoChoices
  /\ finalTables = <<>>
  /\ mergeStage = "input"
  /\ CodecIdle
  /\ PanelIdle

SpecIds == InitIds /\ [][NextMerge]_vars

\* ------------------------------------------------- bounded backup texts
ClockValues == {7}

CountValues ==
  {Undefined, Str("3"), NonFinite, Number(0), Whole(1), Number(2 * Scale + 1),
   Whole(MAX_CHANNELS + 1)}
RawChannelNumbers ==
  {Undefined, NonFinite, Number(1), Whole(2), Number(2 * Scale + 1),
   Whole(MAX_CHANNELS), Whole(MAX_CHANNELS + 1)}
RawTimers ==
  {<<Whole(1), Undefined, Undefined>>,
   <<Whole(2), Whole(1), Number(Scale + 1)>>,
   <<Str("1"), Null, NonFinite>>}
RawChannels ==
  {RawChannelOf(FALSE, Undefined, Undefined, Undefined, Undefined)}
    \cup {RawChannelOf(TRUE, c, t[1], t[2], t[3]) : c \in RawChannelNumbers, t \in RawTimers}

SeqsUpTo(S, n) == UNION {[1..m -> S] : m \in 0..n}

RawTableOf(isObj, id, name, count, channels, created) ==
  [isObject |-> isObj, id |-> id, bossName |-> name, channelsCount |-> count,
   channels |-> channels, createdAt |-> created]

\* raw tables that differ in channelsCount and channels
ChannelRawTables ==
  {RawTableOf(TRUE, Str("a"), Str("X"), n, chs, Whole(1)) :
     n \in CountValues,
     chs \in {[isArray |-> FALSE, items |-> <<>>]}
               \cup {[isArray |-> TRUE, items |-> it] : it \in SeqsUpTo(RawChannels, MaxRawChannels)}}

\* raw tables that differ in the table-level fields
FieldRawTables ==
  {RawTableOf(FALSE, Undefined, Undefined, Undefined, [isArray |-> FALSE, items |-> <<>>], Undefined)}
    \cup {RawTableOf(TRUE, id, name, Whole(1),
                     [isArray |-> TRUE, items |-> <<RawChannelOf(TRUE, Whole(1), Whole(1), Undefined, Undefined)>>],
                     created) :
            id \in {Str("a"), Str(""), Undefined},
            name \in {Undefined, Str("  "), Str("X"), Str("Y")},
            created \in {Whole(1), NonFinite}}

RawTablesFields ==
  {[isArray |-> TRUE, items |-> <<t>>] : t \in ChannelRawTables}
    \cup {[isArray |-> TRUE, items |-> it] : it \in SeqsUpTo(FieldRawTables, MaxRawTables)}

PlainJsonText(value) ==
  [blank |-> FALSE, pad |-> FALSE, prefix |-> "", form |-> "json",
   json |-> [parsable |-> TRUE, value |-> value]]

\* well-formed envelopes around raw tables of every kind
TableTexts ==
  {PlainJsonText(JsonValue("object", Whole(BACKUP_VERSION), Str(STORAGE_VERSION),
                           Whole(3), Str(APP_TIME_ZONE), tf)) : tf \in RawTablesFields}

\* envelopes of every kind in texts of every form
EnvelopeValues ==
  {JsonValue(kd, Undefined, Undefined, Undefined, Undefined, NoTables) :
     kd \in {"array", "number", "null", "string"}}
    \cup {JsonValue("object", v, sv, ea, tz, tf) :
            v \in {Undefined, Whole(BACKUP_VERSION), Whole(BACKUP_VERSION + 1),
                   Str("1"), Number(BACKUP_VERSION * Scale + 1)},
            sv \in {Str(STORAGE_VERSION), Undefined},
            ea \in {Whole(3), Undefined},
            tz \in {Str(APP_TIME_ZONE), Str("UTC"), Undefined},
            tf \in {NoTables, [isArray |-> TRUE, items |-> <<>>],
                    [isArray |-> TRUE, items |->
                       <<RawTableOf(TRUE, Str("a"), Str("X"), Whole(1),
                                    [isArray |-> TRUE, items |-> <<>>], Whole(1))>>]}}

EnvelopeTexts ==
  {BlankText}
    \cup {[blank |-> FALSE, pad |-> pd, prefix |-> px, form |-> fm, json |-> js] :
            pd \in BOOLEAN,
            px \in {"", BACKUP_PREFIX, BACKUP_PREFIX_GZ, "BOSSTIMER_V3:"},
            fm \in {"json", "b64json", "b64gz", "garbage"},
            js \in {NoJson} \cup {[parsable |-> TRUE, value |-> v] : v \in EnvelopeValues}}

\* either a collection of valid tables to export, or a text to import
InitCodec ==
  /\ \/ /\ codecStage = "tables"
        /\ streams \in BOOLEAN
        /\ backupText = BlankText
        /\ \E nl \in 0..MaxTables :
             \E cs \in CountSeqs(nl, MaxTotalChannels) :
               LET slots == Slots("L", cs)
               IN \E F \in SubsetsUpTo(slots, MaxFields) :
                    \E tm \in [F -> Times], ln \in [1..nl -> BossNames] :
                      LET val == [sl \in slots |->
                                    IF sl \in F THEN Whole(tm[sl]) ELSE Undefined]
                      IN backupTables = [t \in 1..nl |->
                           ValidTable(LocalIdOf(t), ln[t], cs[t], 1, "L", t, val)]
     \/ /\ codecStage = "text"
        /\ backupTables = <<>>
        /\ \/ streams = TRUE /\ backupText \in TableTexts
           \/ streams \in BOOLEAN /\ backupText \in EnvelopeTexts
  /\ importResult = NoResult
  /\ MergeIdle
  /\ PanelIdle

ExportState ==
  /\ codecStage = "tables"
  /\ \E now \in ClockValues : backupText' = exportState(backupTables, now, streams)
  /\ codecStage' = "exported"
  /\ UNCHANGED <<backupTables, streams, importResult>>
  /\ UNCHANGED <<mergeVars, panelVars>>

ImportState ==
  /\ codecStage \in {"exported", "text"}
  /\ \E now \in ClockValues : importResult' = importState(backupText, now, streams)
  /\ codecStage' = IF codecStage = "exported" THEN "roundtrip" ELSE "done"
  /\ UNCHANGED <<backupTables, streams, backupText>>
  /\ UNCHANGED <<mergeVars, panelVars>>

NextCodec == ExportState \/ ImportState

SpecCodec == InitCodec /\ [][NextCodec]_vars

\* BackupPanel.tsx lines 80-81: the tables importState returned are merged
\* into a local collection
PipelineLocals ==
  {<<[id |-> "a", bossName |-> "X", channelsCount |-> 2,
      channels |-> <<[EmptyChannel(1) EXCEPT !.killedAt = Whole(2)], EmptyChannel(2)>>,
      createdAt |-> Whole(1)]>>}

MergeImported ==
  /\ codecStage = "done"
  /\ importResult.status = "ok"
  /\ mergeStage = "off"
  /\ existingTables' \in PipelineLocals
  /\ importedTables' = importResult.payload.tables
  /\ mergeStage' = "input"
  /\ UNCHANGED <<preview, mergeChoices, finalTables>>
  /\ UNCHANGED <<codecVars, panelVars>>

NextPipeline == NextCodec \/ MergeImported \/ NextMerge

SpecPipeline == InitCodec /\ [][NextPipeline]_vars

\* ------------------------------------------------------------ BackupPanel
PanelTableX ==
  [id |-> "b", bossName |-> "X", channelsCount |-> 1,
   channels |-> <<[EmptyChannel(1) EXCEPT !.killedAt = Whole(1)]>>, createdAt |-> Whole(2)]
PanelTableY ==
  [id |-> "c", bossName |-> "Y", channelsCount |-> 1,
   channels |-> <<[EmptyChannel(1) EXCEPT !.earliestRespawnAt = Whole(1)]>>,
   createdAt |-> Whole(2)]

\* what the user may paste: backups of other collections in both
\* encodings, a backup of a newer format, and text that is no backup
PanelTexts ==
  {exportState(<<PanelTableX>>, 3, TRUE),
   exportState(<<PanelTableY>>, 3, FALSE),
   PlainJsonText(JsonValue("object", Whole(BACKUP_VERSION + 1), Str(STORAGE_VERSION),
                           Whole(3), Str("UTC"), [isArray |-> TRUE, items |-> <<>>])),
   [blank |-> FALSE, pad |-> FALSE, prefix |-> "", form |-> "garbage", json |-> NoJson]}

PanelStores == PipelineLocals

InitPanel ==
  /\ tables \in PanelStores
  /\ streams = TRUE
  /\ importText = BlankText
  /\ exportText = BlankText
  /\ message = ""
  /\ error = ""
  /\ isBusy = FALSE
  /\ mergePreview = NoPreview
  /\ choices = NoChoices
  /\ pending = NoPending
  /\ lastCall = Called("")
  /\ edits = 0
  /\ MergeIdle
  /\ backupTables = <<>>
  /\ backupText = BlankText
  /\ importResult = NoResult
  /\ codecStage = "off"

RECURSIVE JoinWarnings(_)
\* warnings.join(' ')
JoinWarnings(w) ==
  IF w = <<>> THEN ""
  ELSE IF Len(w) = 1 THEN w[1]
  ELSE w[1] \o " " \o JoinWarnings(Tail(w))

PanelFrame == UNCHANGED <<mergeVars, backupTables, backupText, importResult, codecStage, streams>>

\* textarea onChange (line 142)
SetImportText ==
  /\ \E text \in PanelTexts \ {importText} : importText' = text
  /\ lastCall' = Called("setImportText")
  /\ UNCHANGED <<tables, exportText, message, error, isBusy, mergePreview, choices,
                 pending, edits>>
  /\ PanelFrame

\* handleCopyBackup up to the await (lines 56-62); the button is disabled while busy
CopyBackupClick ==
  /\ ~isBusy
  /\ error' = ""
  /\ message' = ""
  /\ isBusy' = TRUE
  /\ pending' = [kind |-> "copy", tables |-> tables, text |-> importText]
  /\ lastCall' = Called("handleCopyBackup")
  /\ UNCHANGED <<tables, importText, exportText, mergePreview, choices, edits>>
  /\ PanelFrame

\* handleCopyBackup after exportState resolved (lines 62-70); copyText may throw
CopyBackupSettle ==
  /\ pending.kind = "copy"
  /\ \E now \in ClockValues, copied \in BOOLEAN :
       /\ exportText' = exportState(pending.tables, now, streams)
       /\ message' = IF copied THEN "Copied!"
                     ELSE "Backup generated. Copy manually from the textarea."
  /\ isBusy' = FALSE
  /\ pending' = NoPending
  /\ lastCall' = Called("handleCopyBackup")
  /\ UNCHANGED <<tables, importText, error, mergePreview, choices, edits>>
  /\ PanelFrame

\* handleMergeImport up to the await (lines 73-80); the button is disabled while busy
MergeImportClick ==
  /\ ~isBusy
  /\ message' = ""
  /\ error' = ""
  /\ mergePreview' = NoPreview
  /\ isBusy' = TRUE
  /\ pending' = [kind |-> "import", tables |-> tables, text |-> importText]
  /\ lastCall' = Called("handleMergeImport")
  /\ UNCHANGED <<tables, importText, exportText, choices, edits>>
  /\ PanelFrame

\* handleMergeImport after importState settled (lines 83-99): result is what
\* importState returned or threw, pv the preview built from it
MergeImportOutcomeAlwaysReplace(result, pv) ==
  IF result.status # "ok"
  THEN /\ error' = result.error
       /\ lastCall' = Called("handleMergeImport")
       /\ UNCHANGED <<tables, mergePreview, choices, message>>
  ELSE /\ tables' = pv.mergedTables
       /\ lastCall' = Replaced("handleMergeImport", pv.mergedTables)
       /\ mergePreview' = IF pv.conflicts = <<>> THEN mergePreview
                          ELSE [present |-> TRUE, value |-> pv]
       /\ choices' = IF pv.conflicts = <<>> THEN choices ELSE pv.defaultChoices
       /\ message' = "Merged"
       /\ UNCHANGED error
MergeImportOutcome(result, pv) ==
  IF result.status # "ok"
  THEN /\ error' = result.error
       /\ lastCall' = Called("handleMergeImport")
       /\ UNCHANGED <<tables, mergePreview, choices, message>>
  ELSE IF Len(pv.conflicts) = 0
  THEN /\ tables' = pv.mergedTables
       /\ lastCall' = Replaced("handleMergeImport", pv.mergedTables)
       /\ message' =
            IF Len(result.warnings) > 0
            THEN "Merged with warnings: " \o JoinWarnings(result.warnings)
            ELSE "Merged " \o ToString(Len(result.payload.tables))
                   \o " table(s) with no conflicts."
       /\ UNCHANGED <<mergePreview, choices, error>>
  ELSE /\ mergePreview' = [present |-> TRUE, value |-> pv]
       /\ choices' = pv.defaultChoices
       /\ message' = "Found " \o ToString(Len(pv.conflicts))
            \o " conflict(s). Choose what to keep, then click Apply Merge."
       /\ lastCall' = Called("handleMergeImport")
       /\ UNCHANGED <<tables, error>>

\* importState(importText) then buildMergePreview(tables, result.payload.tables)
\* (lines 80-81), with the importText and tables the handler closed over
PreviewOfImport(result, localTables, gen) ==
  buildMergePreview(localTables, result.payload.tables, gen)

\* handleMergeImport after importState settled (lines 80-101)
MergeImportSettle ==
  /\ pending.kind = "import"
  /\ \E now \in ClockValues, gen \in GenStreams :
       \E result \in {importState(pending.text, now, streams)} :
         \E pv \in {PreviewOfImport(result, pending.tables, gen)} :
           MergeImportOutcome(result, pv)
  /\ isBusy' = FALSE
  /\ pending' = NoPending
  /\ UNCHANGED <<importText, exportText, edits>>
  /\ PanelFrame

\* handleChoiceChange (lines 104-106): the radio buttons exist for the
\* conflicts of the pending preview only
ChoiceChange ==
  /\ mergePreview.present
  /\ \E i \in DOMAIN mergePreview.value.conflicts, choice \in {"mine", "theirs"} :
       choices' = (mergePreview.value.conflicts[i].id :> choice) @@ choices
  /\ lastCall' = Called("handleChoiceChange")
  /\ UNCHANGED <<tables, importText, exportText, message, error, isBusy, mergePreview,
                 pending, edits>>
  /\ PanelFrame

\* handleApplyMerge (lines 108-114)
ApplyMerge ==
  /\ IF ~mergePreview.present
     THEN /\ lastCall' = Called("handleApplyMerge")
          /\ UNCHANGED <<tables, mergePreview, message>>
     ELSE LET final == applyMergeChoices(mergePreview.value, choices)
          IN /\ tables' = final
             /\ lastCall' = Replaced("handleApplyMerge", final)
             /\ mergePreview' = NoPreview
             /\ message' = "Merge applied."
  /\ UNCHANGED <<importText, exportText, error, isBusy, choices, pending, edits>>
  /\ PanelFrame

\* the Cancel button (lines 189-196), rendered with the preview only
CancelMerge ==
  /\ mergePreview.present
  /\ mergePreview' = NoPreview
  /\ message' = "Merge canceled."
  /\ lastCall' = Called("cancel")
  /\ UNCHANGED <<tables, importText, exportText, error, isBusy, choices, pending, edits>>
  /\ PanelFrame

\* the store changes outside the panel: the user sets a timer of a table
StoreEdit ==
  /\ edits < MaxEdits
  /\ \E t \in DOMAIN tables :
       \E c \in DOMAIN tables[t].channels, tm \in Times :
         /\ tables[t].channels[c].latestRespawnAt # Whole(tm)
         /\ tables' = [tables EXCEPT ![t].channels[c].latestRespawnAt = Whole(tm)]
  /\ edits' = edits + 1
  /\ lastCall' = Called("storeEdit")
  /\ UNCHANGED <<importText, exportText, message, error, isBusy, mergePreview, choices,
                 pending>>
  /\ PanelFrame

NextPanel ==
  \/ SetImportText
  \/ CopyBackupClick
  \/ CopyBackupSettle
  \/ MergeImportClick
  \/ MergeImportSettle
  \/ ChoiceChange
  \/ ApplyMerge
  \/ CancelMerge
  \/ StoreEdit

Init == InitPanel
Next == NextPanel
Spec == Init /\ [][Next]_vars

\* ------------------------------------------------------------------ claims
\* the value a dense table holds for channel c
ValueAt(t, c) == IF c \in DOMAIN t.channels THEN t.channels[c] ELSE EmptyChannel(c)

TimersDiffer(a, b) ==
  \/ a.killedAt # b.killedAt
  \/ a.earliestRespawnAt # b.earliestRespawnAt
  \/ a.latestRespawnAt # b.latestRespawnAt

ConflictIndices == DOMAIN preview.conflicts
ChannelRange == 1..MAX_CHANNELS

HasConflictOn(name, c) ==
  \E i \in ConflictIndices :
    preview.conflicts[i].bossName = name /\ preview.conflicts[i].channel = c

TablesWithId(ts, id) == {i \in DOMAIN ts : ts[i].id = id}

\* C1: buildMergePreview records a conflict for a boss name and channel k if
\* and only if the local table and an imported table with that boss name both
\* hold timer data on channel k and differ in at least one of the three
\* timestamps; every conflict has mine equal to the local value and theirs equal
\* to the imported value; the merged channel and the defaultChoices entry are
\* provisionally 'mine'.
C1_ConflictIffLocalAndImportedDiffer ==
  mergeStage # "input" =>
    /\ \A name \in BossNames, c \in 1..MaxTotalChannels :
         HasConflictOn(name, c) <=>
           \E l \in DOMAIN existingTables, j \in DOMAIN importedTables :
             /\ existingTables[l].bossName = name
             /\ importedTables[j].bossName = name
             /\ hasTimer(ValueAt(existingTables[l], c))
             /\ hasTimer(ValueAt(importedTables[j], c))
             /\ TimersDiffer(ValueAt(existingTables[l], c), ValueAt(importedTables[j], c))
    /\ \A i \in ConflictIndices :
         LET cf == preview.conflicts[i]
         IN /\ \E l \in DOMAIN existingTables :
                 /\ existingTables[l].bossName = cf.bossName
                 /\ cf.mine = ValueAt(existingTables[l], cf.channel)
            /\ \E j \in DOMAIN importedTables :
                 /\ importedTables[j].bossName = cf.bossName
                 /\ cf.theirs = ValueAt(importedTables[j], cf.channel)
            /\ \A t \in TablesWithId(preview.mergedTables, cf.tableId) :
                 ValueAt(preview.mergedTables[t], cf.channel) = cf.mine
            /\ cf.id \in DOMAIN preview.defaultChoices
            /\ preview.defaultChoices[cf.id] = "mine"

\* C2: after applyMergeChoices(preview, choices), for every conflict c the
\* channel c.channel of the table with id c.tableId equals c.theirs when
\* choices[c.id] is 'theirs' and c.mine otherwise; every channel without a
\* conflict is the same as in preview.mergedTables.
C2_EveryChoiceIsApplied ==
  mergeStage = "applied" =>
    /\ \A i \in ConflictIndices :
         LET cf == preview.conflicts[i]
         IN \A t \in TablesWithId(finalTables, cf.tableId) :
              ValueAt(finalTables[t], cf.channel) =
                IF SelectedChoice(mergeChoices, cf.id) = "theirs" THEN cf.theirs ELSE cf.mine
    /\ Len(finalTables) = Len(preview.mergedTables)
    /\ \A t \in DOMAIN finalTables :
         /\ DOMAIN finalTables[t].channels = DOMAIN preview.mergedTables[t].channels
         /\ \A c \in DOMAIN finalTables[t].channels :
              (~ \E i \in ConflictIndices :
                   /\ preview.conflicts[i].tableId = finalTables[t].id
                   /\ preview.conflicts[i].channel = c)
                => finalTables[t].channels[c] = preview.mergedTables[t].channels[c]

\* C3: for a boss name present in both collections, a channel in
\* 1..max(channelsCount) on which exactly one side has timer data produces no
\* conflict and the merged channel carries that side's timestamps; a channel
\* empty on both sides is empty in the result; no timer of either side is
\* missing from the merged table unless it is the 'theirs' side of a conflict.
C3_OneSidedChannelIsAdopted ==
  mergeStage # "input" =>
    \A l \in DOMAIN existingTables, j \in DOMAIN importedTables :
      existingTables[l].bossName = importedTables[j].bossName =>
        \A c \in 1..Max2(existingTables[l].channelsCount, importedTables[j].channelsCount) :
          LET mine == ValueAt(existingTables[l], c)
              theirs == ValueAt(importedTables[j], c)
              merged == ValueAt(preview.mergedTables[l], c)
          IN /\ (hasTimer(mine) /\ ~hasTimer(theirs)) =>
                  (~HasConflictOn(existingTables[l].bossName, c) /\ ~TimersDiffer(merged, mine))
             /\ (~hasTimer(mine) /\ hasTimer(theirs)) =>
                  (~HasConflictOn(existingTables[l].bossName, c) /\ ~TimersDiffer(merged, theirs))
             /\ (~hasTimer(mine) /\ ~hasTimer(theirs)) => ~hasTimer(merged)
             /\ hasTimer(mine) => ~TimersDiffer(merged, mine)
             /\ hasTimer(theirs) =>
                  \/ ~TimersDiffer(merged, theirs)
                  \/ \E i \in ConflictIndices :
                       /\ preview.conflicts[i].bossName = importedTables[j].bossName
                       /\ preview.conflicts[i].channel = c
                       /\ preview.conflicts[i].theirs = theirs

\* C4: buildMergePreview(T, T) yields zero conflicts, an empty defaultChoices
\* map and mergedTables structurally equal to T.
C4_SelfMergeIsIdentity ==
  (mergeStage # "input" /\ importedTables = existingTables) =>
    /\ preview.conflicts = <<>>
    /\ preview.defaultChoices = NoChoices
    /\ preview.mergedTables = existingTables

\* C7: with pairwise distinct local ids, mergedTables has pairwise distinct
\* ids for any imported collection; an imported table appended under a new
\* boss name keeps its own id exactly when that id is not yet used in the
\* result.
LocalIdsDistinct ==
  \A p, q \in DOMAIN existingTables :
    p # q => existingTables[p].id # existingTables[q].id

FirstImportedNamed(name) ==
  importedTables[MinOf({j \in DOMAIN importedTables : importedTables[j].bossName = name})]

C7_MergedIdsDistinct ==
  (mergeStage # "input" /\ LocalIdsDistinct) =>
    /\ \A p, q \in DOMAIN preview.mergedTables :
         p # q => preview.mergedTables[p].id # preview.mergedTables[q].id
    /\ \A p \in (Len(existingTables) + 1)..Len(preview.mergedTables) :
         LET src == FirstImportedNamed(preview.mergedTables[p].bossName)
             usedBefore == {preview.mergedTables[q].id : q \in 1..(p - 1)}
         IN (preview.mergedTables[p].id = src.id) <=> (src.id \notin usedBefore)

\* C7 witness: two imported tables were appended, one under its own id and
\* one under a generated id because its own was taken
C7_Witness ==
  /\ mergeStage = "preview"
  /\ LocalIdsDistinct
  /\ Len(existingTables) >= 1
  /\ \E p, q \in (Len(existingTables) + 1)..Len(preview.mergedTables) :
       /\ preview.mergedTables[p].id = FirstImportedNamed(preview.mergedTables[p].bossName).id
       /\ preview.mergedTables[q].id # FirstImportedNamed(preview.mergedTables[q].bossName).id
       /\ FirstImportedNamed(preview.mergedTables[q].bossName).id = existingTables[1].id

\* C5: every table returned by importState, and every table in the output of
\* buildMergePreview and applyMergeChoices whose input tables satisfy it, has
\* channelsCount in [1, 50], channels.length = channelsCount and channel
\* numbers exactly 1..channelsCount in ascending order.
DenseTable(t) ==
  /\ t.channelsCount \in MIN_CHANNELS..MAX_CHANNELS
  /\ Len(t.channels) = t.channelsCount
  /\ \A i \in DOMAIN t.channels : t.channels[i].channel = i

AllDense(ts) == \A i \in DOMAIN ts : DenseTable(ts[i])

C5_TablesAreDense ==
  /\ importResult.status = "ok" => AllDense(importResult.payload.tables)
  /\ (mergeStage \in {"preview", "applied"} /\ AllDense(existingTables)
        /\ AllDense(importedTables)) => AllDense(preview.mergedTables)
  /\ (mergeStage = "applied" /\ AllDense(existingTables) /\ AllDense(importedTables))
        => AllDense(finalTables)

\* C5 witness: a raw table asking for more than 50 channels was imported,
\* merged into a local table with a conflict, and the conflict resolved to
\* 'theirs'
C5_Witness ==
  /\ mergeStage = "applied"
  /\ importResult.status = "ok"
  /\ \E i \in DOMAIN backupText.json.value.tables.items :
       backupText.json.value.tables.items[i].channelsCount = Whole(MAX_CHANNELS + 1)
  /\ \E i \in DOMAIN finalTables : finalTables[i].channelsCount = MAX_CHANNELS
  /\ \E i \in ConflictIndices :
       SelectedChoice(mergeChoices, preview.conflicts[i].id) = "theirs"

\* the raw tables normalizeTable accepts, in order: they are payload.tables
AcceptedRawTable(t) == t.isObject /\ t.bossName.k = "string" /\ ~IsBlank(t.bossName.s)
AcceptedRawTables == SelectSeq(backupText.json.value.tables.items, AcceptedRawTable)

\* the entries of a raw channels field that survive parsing and
\* deduplication: finite channel number, no later entry with the same number
RawEntries(t) == IF t.channels.isArray THEN t.channels.items ELSE <<>>
ParsesAsChannel(e) == e.isObject /\ e.channel.k = "number"
ObservedNumber(e) == Max2(1, Floor(e.channel.n))
Survivors(t) ==
  {j \in DOMAIN RawEntries(t) :
     /\ ParsesAsChannel(RawEntries(t)[j])
     /\ \A later \in DOMAIN RawEntries(t) :
          (later > j /\ ParsesAsChannel(RawEntries(t)[later]))
            => ObservedNumber(RawEntries(t)[later]) # ObservedNumber(RawEntries(t)[j])}

SurvivorKept(t, normalized, j) ==
  \E i \in DOMAIN normalized.channels :
    /\ normalized.channels[i].channel = ObservedNumber(RawEntries(t)[j])
    /\ normalized.channels[i].killedAt = toEpoch(RawEntries(t)[j].killedAt)
    /\ normalized.channels[i].earliestRespawnAt = toEpoch(RawEntries(t)[j].earliestRespawnAt)
    /\ normalized.channels[i].latestRespawnAt = toEpoch(RawEntries(t)[j].latestRespawnAt)

\* C6 as stated: every channel number that survives parsing and deduplication
\* appears in the normalized table with that entry's timestamps, whatever the
\* explicit channelsCount and the highest observed channel number.
C6_NoObservedChannelDropped ==
  (codecStage = "done" /\ importResult.status = "ok") =>
    /\ Len(importResult.payload.tables) = Len(AcceptedRawTables)
    /\ \A i \in DOMAIN AcceptedRawTables :
         \A j \in Survivors(AcceptedRawTables[i]) :
           SurvivorKept(AcceptedRawTables[i], importResult.payload.tables[i], j)

\* C6 amended: every surviving channel number that is at most 50 appears in
\* the normalized table with that entry's timestamps, whatever the explicit
\* channelsCount; channel numbers above 50 are dropped.
C6_ObservedChannelsUpToMaxKept ==
  (codecStage = "done" /\ importResult.status = "ok") =>
    /\ Len(importResult.payload.tables) = Len(AcceptedRawTables)
    /\ \A i \in DOMAIN AcceptedRawTables :
         \A j \in Survivors(AcceptedRawTables[i]) :
           IF ObservedNumber(RawEntries(AcceptedRawTables[i])[j]) <= MAX_CHANNELS
           THEN SurvivorKept(AcceptedRawTables[i], importResult.payload.tables[i], j)
           ELSE \A c \in DOMAIN importResult.payload.tables[i].channels :
                  importResult.payload.tables[i].channels[c].channel
                    # ObservedNumber(RawEntries(AcceptedRawTables[i])[j])

\* C6 witness: an explicit channelsCount of 1 with a timer observed on
\* channel 2 twice: the table grows to 2 channels and keeps the later entry
C6_Witness ==
  /\ codecStage = "done"
  /\ importResult.status = "ok"
  /\ \E i \in DOMAIN AcceptedRawTables :
       /\ AcceptedRawTables[i].channelsCount = Whole(1)
       /\ Len(RawEntries(AcceptedRawTables[i])) = 2
       /\ Survivors(AcceptedRawTables[i]) = {2}
       /\ ObservedNumber(RawEntries(AcceptedRawTables[i])[2]) = 2
       /\ RawEntries(AcceptedRawTables[i])[1].channel.k = "number"
       /\ RawEntries(AcceptedRawTables[i])[1].killedAt # RawEntries(AcceptedRawTables[i])[2].killedAt
       /\ importResult.payload.tables[i].channelsCount = 2
       /\ hasTimer(importResult.payload.tables[i].channels[2])

\* C8: importState(exportState(tables)).payload.tables equals tables for any
\* collection of valid tables, with and without the Compression Streams API,
\* and importState decodes along the branch of the prefix exportState wrote.
C8_RoundTrip ==
  codecStage = "roundtrip" =>
    /\ importResult.status = "ok"
    /\ importResult.payload.tables = backupTables
    /\ streams => (backupText.prefix = BACKUP_PREFIX_GZ /\ importResult.path = "gz")
    /\ ~streams => (backupText.prefix = BACKUP_PREFIX /\ importResult.path = "base64")

\* C8 witness: two tables holding a timer went through the fallback path
C8_Witness ==
  /\ codecStage = "roundtrip"
  /\ ~streams
  /\ Len(backupTables) = 2
  /\ \E i \in DOMAIN backupTables :
       \E c \in DOMAIN backupTables[i].channels : hasTimer(backupTables[i].channels[c])
  /\ importResult.payload.tables = backupTables

\* C9: a text that decodes to a keyed record whose version is absent or
\* differs from 1 fails with 'Unsupported backup version', whatever the rest
\* of the payload; an empty or whitespace-only text fails with 'Invalid
\* backup string'.
DecodesToRecord ==
  /\ ~backupText.blank
  /\ backupText.json.parsable
  /\ backupText.json.value.k = "object"
  /\ \/ backupText.prefix = "" /\ backupText.form = "json"
     \/ backupText.prefix = BACKUP_PREFIX /\ backupText.form = "b64json"
     \/ backupText.prefix = BACKUP_PREFIX_GZ /\ backupText.form = "b64gz" /\ streams

C9_VersionCheckedFirst ==
  codecStage = "done" =>
    /\ backupText.blank =>
         (importResult.status = "error" /\ importResult.error = InvalidFormat)
    /\ (DecodesToRecord /\ backupText.json.value.version # Whole(BACKUP_VERSION)) =>
         (importResult.status = "error" /\ importResult.error = UnsupportedVersion)

\* C9 witness: version 2 and no tables field at all
C9_Witness ==
  /\ codecStage = "done"
  /\ DecodesToRecord
  /\ backupText.json.value.version = Whole(BACKUP_VERSION + 1)
  /\ ~backupText.json.value.tables.isArray
  /\ importResult.error = UnsupportedVersion

\* C10: a Merge Import whose preview has a conflict never replaces the
\* store's tables by itself; onReplaceTables is called only by a later Apply
\* Merge, with applyMergeChoices(preview, current choices), or by a Merge
\* Import with zero conflicts, once, with preview.mergedTables; Cancel, a
\* failed import and a new Merge Import discard the pending preview without
\* a replacement; Apply Merge with no pending preview does nothing.
ImportSettles == pending.kind = "import" /\ pending'.kind = "none"

C10_Step ==
  /\ lastCall'.replaced =>
       \/ /\ ImportSettles
          /\ lastCall'.handler = "handleMergeImport"
          /\ ~mergePreview'.present
          /\ \E now \in ClockValues, gen \in GenStreams :
               \E result \in {importState(pending.text, now, streams)} :
               \E pv \in {buildMergePreview(pending.tables, result.payload.tables, gen)} :
                  /\ result.status = "ok"
                  /\ pv.conflicts = <<>>
                  /\ lastCall'.arg = pv.mergedTables
          /\ tables' = lastCall'.arg
       \/ /\ lastCall'.handler = "handleApplyMerge"
          /\ mergePreview.present
          /\ lastCall'.arg = applyMergeChoices(mergePreview.value, choices)
          /\ tables' = lastCall'.arg
          /\ ~mergePreview'.present
  /\ (ImportSettles /\ mergePreview'.present) =>
       /\ ~lastCall'.replaced
       /\ tables' = tables
       /\ mergePreview'.value.conflicts # <<>>
       /\ choices' = mergePreview'.value.defaultChoices
  /\ (ImportSettles /\ error' = "" /\ ~mergePreview'.present) => lastCall'.replaced
  /\ (ImportSettles /\ error' # "") =>
       (~lastCall'.replaced /\ tables' = tables /\ ~mergePreview'.present)
  /\ (mergePreview.present /\ ~mergePreview'.present
        /\ lastCall'.handler # "handleApplyMerge") =>
       (~lastCall'.replaced /\ tables' = tables)
  /\ (lastCall'.handler = "handleApplyMerge" /\ ~mergePreview.present) =>
       /\ ~lastCall'.replaced
       /\ UNCHANGED <<tables, importText, exportText, message, error, isBusy,
                      mergePreview, choices, pending, edits>>
  /\ (mergePreview'.present /\ ~mergePreview.present) => ImportSettles

C10_ReplaceOnlyOnResolvedMerge == [][C10_Step]_vars

\* C10 witness: Apply Merge has just replaced the store with a collection in
\* which a conflict was resolved to 'theirs'
C10_Witness ==
  /\ lastCall.handler = "handleApplyMerge"
  /\ lastCall.replaced
  /\ tables = lastCall.arg
  /\ \E id \in DOMAIN choices : choices[id] = "theirs"
  /\ \E t \in DOMAIN tables :
       tables[t].bossName = "X" /\ tables[t].channels[1].killedAt = Whole(1)

\* a timer the store holds on channel c of table t just before a replacement
\* is in the store after it: the same table still holds it, unless the user
\* resolved a conflict on that channel to 'theirs'
TimerSurvives(t, c) ==
  \E u \in DOMAIN tables' :
    /\ tables'[u].id = tables[t].id
    /\ c \in DOMAIN tables'[u].channels
    /\ \/ tables'[u].channels[c] = tables[t].channels[c]
       \/ /\ lastCall'.handler = "handleApplyMerge"
          /\ \E i \in DOMAIN mergePreview.value.conflicts :
               /\ mergePreview.value.conflicts[i].tableId = tables[t].id
               /\ mergePreview.value.conflicts[i].channel = c
               /\ SelectedChoice(choices, mergePreview.value.conflicts[i].id) = "theirs"
               /\ tables'[u].channels[c] = mergePreview.value.conflicts[i].theirs

\* C11: the collection BackupPanel passes to onReplaceTables is merged from
\* the store's tables as they are at the moment of the replacement: on a
\* conflict-free Merge Import it is buildMergePreview(current tables,
\* imported tables).mergedTables, and every timer the store holds just before
\* a replacement (one edited in while importState was decoding or while a
\* preview waited for Apply Merge included) is still in the store after it.
C11_Step ==
  lastCall'.replaced =>
    /\ ImportSettles =>
         \E now \in ClockValues, gen \in GenStreams :
           \E result \in {importState(pending.text, now, streams)} :
             lastCall'.arg = PreviewOfImport(result, tables, gen).mergedTables
    /\ \A t \in DOMAIN tables :
         \A c \in DOMAIN tables[t].channels :
           hasTimer(tables[t].channels[c]) => TimerSurvives(t, c)

C11_ReplacementMergesCurrentStore == [][C11_Step]_vars

====
